---- MODULE Spec2Model ----
(***************************************************************************)
(* Model of src/methods/scgpt_finetuned/script.py: the scGPT fine-tuning   *)
(* method script.  The script is straight-line code with one epoch loop;   *)
(* pc is the position in the script, every other variable is a Python      *)
(* variable of the script, a piece of the file system it touches, or a     *)
(* history variable that records what the helpers returned.                *)
(***************************************************************************)
EXTENDS Integers, Sequences, FiniteSets, TLC

\* ------------------------------------------------------------------ bounds
\* Finite validation losses are 0..MaxLoss.
MaxLoss == 1

\* hyperparameters["epochs"]
Epochs == 15

\* ---------------------------------------------------------- value encodings
\* float("inf") and a NaN loss, kept apart from the finite losses.
Inf == MaxLoss + 1
NaN == MaxLoss + 2
LossValues == (0..MaxLoss) \cup {Inf, NaN}

\* Python's None / an unbound name, and a bound value.
None == << >>
Some(x) == << x >>
Val(o) == o[1]

\* IEEE comparison a < b on floats: every comparison with NaN is False.
Lt(a, b) == a # NaN /\ b # NaN /\ a < b

\* The values uns["dataset_organism"] takes in the model.
Organisms == {"homo_sapiens", "mus_musculus"}

\* What par["model"] can be: None, or a path described by what the os /
\* zipfile / tarfile predicates answer for it and by its file name suffix.
ModelPath(d, z, t, s) == [isdir |-> d, is_zipfile |-> z, is_tarfile |-> t, targz_suffix |-> s]
ModelArgs ==
    { None,
      Some(ModelPath(TRUE, FALSE, FALSE, FALSE)),   \* a model directory
      Some(ModelPath(FALSE, TRUE, FALSE, FALSE)),   \* model.zip
      Some(ModelPath(FALSE, FALSE, TRUE, TRUE)),    \* model.tar.gz
      Some(ModelPath(FALSE, FALSE, TRUE, FALSE)),   \* model.tar / model.tgz
      Some(ModelPath(FALSE, FALSE, FALSE, TRUE)),   \* a non-archive named *.tar.gz
      Some(ModelPath(FALSE, FALSE, FALSE, FALSE)) } \* any other file

\* Directory names.
UserDir == "user_model_dir"
ModelTmp == "model_tmp"
ModelTmpSub == "model_tmp/extracted"
BestTmp == "best_model_tmp"

\* Model objects: the one bound to `model`, and room for the snapshot that
\* best_model refers to plus the copy being made while the old one is live.
ModelObj == "model"
ObjIds == {"model", "snapshot_a", "snapshot_b"}

\* The files embed_data reads from the model directory it is given.
CheckpointFiles == {"vocab.json", "args.json", "best_model.pt"}

VARIABLES
    pc,               \* position in the script
    organism,         \* adata.uns["dataset_organism"] of the input file
    par_model,        \* par["model"]
    steps,            \* history: the pipeline stages completed, in order
    model_temp,       \* model_temp: None or the TemporaryDirectory's name
    model_dir,        \* model_dir
    fs,               \* the directories that exist
    cleanups,         \* history: the cleanup() calls made, in order
    heap,             \* object id -> parameters of that model object
    epoch,            \* the loop variable (0 before the loop)
    train_data_pt,    \* epoch the masked tensors were generated for
    train_loader,     \* epoch of the tensors the train loader wraps
    valid_loader,     \* epoch of the tensors the validation loader wraps
    val_loss,         \* val_loss
    best_val_loss,    \* best_val_loss
    best_model,       \* best_model: None or the id of the snapshot object
    best_model_epoch, \* best_model_epoch: unbound or an epoch
    sched_steps,      \* number of scheduler.step() calls (StepLR.last_epoch)
    seen,             \* history: the losses evaluate has returned
    first_min_epoch,  \* history: first epoch that returned the least non-NaN loss
    best_model_dir,   \* best_model_dir: unbound or the TemporaryDirectory's name
    best_dir_files,   \* files in best_model_dir
    saved_state,      \* the state_dict stored in best_model.pt
    embedded,         \* parameters the embedding was computed with
    output_writes,    \* number of write_h5ad calls on par["output"]
    error             \* the exception that ended the script, if any

vars == << pc, organism, par_model, steps, model_temp, model_dir, fs, cleanups,
           heap, epoch, train_data_pt, train_loader, valid_loader, val_loss,
           best_val_loss, best_model, best_model_epoch, sched_steps, seen,
           first_min_epoch, best_model_dir, best_dir_files, saved_state,
           embedded, output_writes, error >>

inputVars == << organism, par_model >>
modelSrcVars == << model_temp, model_dir, fs, cleanups >>
loopVars == << heap, epoch, train_data_pt, train_loader, valid_loader, val_loss,
               best_val_loss, best_model, best_model_epoch, sched_steps, seen,
               first_min_epoch >>
outVars == << best_model_dir, best_dir_files, saved_state, embedded, output_writes >>

\* ------------------------------------------------------------------- Init
Init ==
    /\ pc = "read_input"
    /\ organism \in Organisms
    /\ par_model \in ModelArgs
    /\ steps = << >>
    /\ model_temp = None
    /\ model_dir = None
    /\ fs = IF par_model # None /\ Val(par_model).isdir THEN {UserDir} ELSE {}
    /\ cleanups = << >>
    /\ heap = [o \in {} |-> 0]
    /\ epoch = 0
    /\ train_data_pt = None
    /\ train_loader = None
    /\ valid_loader = None
    /\ val_loss = None
    /\ best_val_loss = None
    /\ best_model = None
    /\ best_model_epoch = None
    /\ sched_steps = 0
    /\ seen = {}
    /\ first_min_epoch = None
    /\ best_model_dir = None
    /\ best_dir_files = {}
    /\ saved_state = None
    /\ embedded = None
    /\ output_writes = 0
    /\ error = None

\* Completing a pipeline stage.
Stage(name) == steps' = Append(steps, name)

\* An uncaught exception ends the script.
Raise(exc) == pc' = "error" /\ error' = Some(exc)

\* ------------------------------------------------- input and organism check
\* adata = read_anndata(par["input"], ...)
ReadInput ==
    /\ pc = "read_input"
    /\ pc' = "check_organism"
    /\ Stage("load_input")
    /\ UNCHANGED << inputVars, modelSrcVars, loopVars, outVars, error >>

\* Mutant: the organism test inverted.
NotHumanInverted(org) == org = "homo_sapiens"

\* adata.uns["dataset_organism"] != "homo_sapiens"
NotHuman(org) == org # "homo_sapiens"

\* exit_non_applicable(msg): ends the process with the non-applicable status.
ExitNonApplicable ==
    /\ pc' = "exit_non_applicable"
    /\ UNCHANGED << steps, error >>

CheckOrganism ==
    /\ pc = "check_organism"
    /\ IF NotHuman(organism)
       THEN ExitNonApplicable
       ELSE /\ pc' = "annotate"
            /\ Stage("human_filter")
            /\ UNCHANGED error
    /\ UNCHANGED << inputVars, modelSrcVars, loopVars, outVars >>

\* str_batch, batch_id, feature_id, var_names
Annotate ==
    /\ pc = "annotate"
    /\ pc' = "resolve_model"
    /\ Stage("annotate")
    /\ UNCHANGED << inputVars, modelSrcVars, loopVars, outVars, error >>

\* ----------------------------------------------------- model source resolution
\* tempfile.TemporaryDirectory(): a fresh directory.
NewTempDir(name) == fs' = fs \cup {name}

\* par["model"] is None: download into a fresh temporary directory.
DownloadModel ==
    /\ pc = "resolve_model"
    /\ par_model = None
    /\ model_temp' = Some(ModelTmp)
    /\ model_dir' = Some(ModelTmp)
    /\ NewTempDir(ModelTmp)
    /\ pc' = "load_config"
    /\ Stage("resolve_model")
    /\ UNCHANGED << inputVars, cleanups, loopVars, outVars, error >>

\* os.path.isdir(par["model"])
UseModelDirectory ==
    /\ pc = "resolve_model"
    /\ par_model # None
    /\ Val(par_model).isdir
    /\ model_temp' = None
    /\ model_dir' = Some(UserDir)
    /\ pc' = "load_config"
    /\ Stage("resolve_model")
    /\ UNCHANGED << inputVars, fs, cleanups, loopVars, outVars, error >>

\* zipfile.is_zipfile(par["model"])
IsZip(p) == p.is_zipfile

\* Mutant: the file name suffix is not tested.
IsTarGzAnySuffix(p) == p.is_tarfile

\* tarfile.is_tarfile(par["model"]) and par["model"].endswith(".tar.gz")
IsTarGz(p) == p.is_tarfile /\ p.targz_suffix

\* The else branch: a temporary directory is made, then the archive is
\* extracted into it, or ValueError is raised.
ExtractArchive ==
    /\ pc = "resolve_model"
    /\ par_model # None
    /\ ~Val(par_model).isdir
    /\ model_temp' = Some(ModelTmp)
    /\ NewTempDir(ModelTmp)
    /\ IF IsZip(Val(par_model))
       THEN /\ model_dir' = Some(ModelTmp)
            /\ pc' = "load_config"
            /\ Stage("resolve_model")
            /\ UNCHANGED error
       ELSE IF IsTarGz(Val(par_model))
       THEN /\ model_dir' = Some(ModelTmpSub)
            /\ pc' = "load_config"
            /\ Stage("resolve_model")
            /\ UNCHANGED error
       ELSE /\ model_dir' = Some(ModelTmp)
            /\ Raise("ValueError")
            /\ UNCHANGED steps
    /\ UNCHANGED << inputVars, cleanups, loopVars, outVars >>

\* ------------------------------------------------ configuration to training
\* Mutant: preprocessing is skipped.
LoadConfigSkipsPreprocess ==
    /\ pc = "load_config"
    /\ pc' = "split_tokenize"
    /\ Stage("restrict_genes")
    /\ UNCHANGED << inputVars, modelSrcVars, loopVars, outVars, error >>

\* model file names, model_settings, vocabulary, genes restricted to the
\* vocabulary, pretrained_config, model_config
LoadConfig ==
    /\ pc = "load_config"
    /\ pc' = "preprocess"
    /\ Stage("restrict_genes")
    /\ UNCHANGED << inputVars, modelSrcVars, loopVars, outVars, error >>

\* scgpt.preprocess.Preprocessor(...)(adata, batch_key="str_batch")
Preprocess ==
    /\ pc = "preprocess"
    /\ pc' = "split_tokenize"
    /\ Stage("preprocess")
    /\ UNCHANGED << inputVars, modelSrcVars, loopVars, outVars, error >>

\* train_test_split, tokenize_and_pad_batch (train and validation)
SplitTokenize ==
    /\ pc = "split_tokenize"
    /\ pc' = "load_model"
    /\ Stage("split_tokenize")
    /\ UNCHANGED << inputVars, modelSrcVars, loopVars, outVars, error >>

\* hyperparameters, TransformerModel(...), load_pretrained, model.to(device)
LoadModel ==
    /\ pc = "load_model"
    /\ heap' = (ModelObj :> 0)
    /\ pc' = "setup_training"
    /\ Stage("load_model")
    /\ UNCHANGED << inputVars, modelSrcVars, epoch, train_data_pt, train_loader,
                    valid_loader, val_loss, best_val_loss, best_model,
                    best_model_epoch, sched_steps, seen, first_min_epoch,
                    outVars, error >>

\* criterion, optimizer, scheduler, scaler; best_val_loss = inf; best_model = None
SetupTraining ==
    /\ pc = "setup_training"
    /\ best_val_loss' = Some(Inf)
    /\ best_model' = None
    /\ sched_steps' = 0
    /\ pc' = "for_epoch"
    /\ UNCHANGED << inputVars, steps, modelSrcVars, heap, epoch, train_data_pt,
                    train_loader, valid_loader, val_loss, best_model_epoch,
                    seen, first_min_epoch, outVars, error >>

\* ------------------------------------------------------------- epoch loop
\* Mutant: the loop breaks after an epoch that did not improve on the best.
ForEpochEarlyStop ==
    /\ pc = "for_epoch"
    /\ IF epoch < Epochs /\ (epoch = 0 \/ best_model_epoch = Some(epoch))
       THEN /\ epoch' = epoch + 1
            /\ pc' = "prepare_data"
            /\ UNCHANGED steps
       ELSE /\ pc' = "report"
            /\ Stage("epoch_loop")
            /\ UNCHANGED epoch
    /\ UNCHANGED << inputVars, modelSrcVars, heap, train_data_pt, train_loader,
                    valid_loader, val_loss, best_val_loss, best_model,
                    best_model_epoch, sched_steps, seen, first_min_epoch,
                    outVars, error >>

\* Mutant: range(1, epochs + 2), one epoch too many.
ForEpochOffByOne ==
    /\ pc = "for_epoch"
    /\ IF epoch < Epochs + 1
       THEN /\ epoch' = epoch + 1
            /\ pc' = "prepare_data"
            /\ UNCHANGED steps
       ELSE /\ pc' = "report"
            /\ Stage("epoch_loop")
            /\ UNCHANGED epoch
    /\ UNCHANGED << inputVars, modelSrcVars, heap, train_data_pt, train_loader,
                    valid_loader, val_loss, best_val_loss, best_model,
                    best_model_epoch, sched_steps, seen, first_min_epoch,
                    outVars, error >>

\* for epoch in range(1, hyperparameters["epochs"] + 1)
ForEpoch ==
    /\ pc = "for_epoch"
    /\ IF epoch < Epochs
       THEN /\ epoch' = epoch + 1
            /\ pc' = "prepare_data"
            /\ UNCHANGED steps
       ELSE /\ pc' = "report"
            /\ Stage("epoch_loop")
            /\ UNCHANGED epoch
    /\ UNCHANGED << inputVars, modelSrcVars, heap, train_data_pt, train_loader,
                    valid_loader, val_loss, best_val_loss, best_model,
                    best_model_epoch, sched_steps, seen, first_min_epoch,
                    outVars, error >>

\* train_data_pt, valid_data_pt = prepare_data(..., epoch)
PrepareData ==
    /\ pc = "prepare_data"
    /\ train_data_pt' = Some(epoch)
    /\ pc' = "train_loader"
    /\ UNCHANGED << inputVars, steps, modelSrcVars, heap, epoch, train_loader,
                    valid_loader, val_loss, best_val_loss, best_model,
                    best_model_epoch, sched_steps, seen, first_min_epoch,
                    outVars, error >>

\* train_loader = prepare_dataloader(train_data_pt, ...)
TrainLoader ==
    /\ pc = "train_loader"
    /\ train_loader' = train_data_pt
    /\ pc' = "valid_loader"
    /\ UNCHANGED << inputVars, steps, modelSrcVars, heap, epoch, train_data_pt,
                    valid_loader, val_loss, best_val_loss, best_model,
                    best_model_epoch, sched_steps, seen, first_min_epoch,
                    outVars, error >>

\* valid_loader = prepare_dataloader(valid_data_pt, ...)
ValidLoader ==
    /\ pc = "valid_loader"
    /\ valid_loader' = train_data_pt
    /\ pc' = "train"
    /\ UNCHANGED << inputVars, steps, modelSrcVars, heap, epoch, train_data_pt,
                    train_loader, val_loss, best_val_loss, best_model,
                    best_model_epoch, sched_steps, seen, first_min_epoch,
                    outVars, error >>

\* What one call of train does to the parameters of the model it is given:
\* they are updated, so they differ from those of every earlier epoch.
TrainEffect(params) == params + 1

\* train(model, train_loader, ...): updates the object `model` in place.
Train ==
    /\ pc = "train"
    /\ heap' = [heap EXCEPT ![ModelObj] = TrainEffect(@)]
    /\ pc' = "evaluate"
    /\ UNCHANGED << inputVars, steps, modelSrcVars, epoch, train_data_pt,
                    train_loader, valid_loader, val_loss, best_val_loss,
                    best_model, best_model_epoch, sched_steps, seen,
                    first_min_epoch, outVars, error >>

\* v is strictly below every non-NaN loss in S.
IsNewLeast(v, S) == v # NaN /\ \A x \in S \ {NaN} : Lt(v, x)

\* val_loss, val_mre = evaluate(model, valid_loader, ...): any float.
Evaluate ==
    /\ pc = "evaluate"
    /\ \E v \in LossValues :
          /\ val_loss' = Some(v)
          /\ seen' = seen \cup {v}
          /\ first_min_epoch' = IF IsNewLeast(v, seen) THEN Some(epoch)
                                ELSE first_min_epoch
    /\ pc' = "update_best"
    /\ UNCHANGED << inputVars, steps, modelSrcVars, heap, epoch, train_data_pt,
                    train_loader, valid_loader, best_val_loss, best_model,
                    best_model_epoch, sched_steps, outVars, error >>

\* Mutant: val_loss <= best_val_loss.
ImprovesOrTies(v, best) == v # NaN /\ best # NaN /\ v <= best

\* Mutant: not (val_loss >= best_val_loss), which is True for a NaN loss.
ImprovesNotGe(v, best) == ~(v # NaN /\ best # NaN /\ v >= best)

\* val_loss < best_val_loss
Improves(v, best) == Lt(v, best)

\* An object id not in use.
FreshId(h) == CHOOSE i \in ObjIds : i \notin DOMAIN h

\* Mutant: best_model = model, a second name for the same object.
AliasCopy(h, src) == src

\* copy.deepcopy(model): the id of the object the name is bound to.
DeepCopy(h, src) == FreshId(h)

\* The heap after best_model = copy.deepcopy(model): the object `ref` holds
\* the parameters of `src`; the object best_model referred to before is freed.
Rebind(h, ref, src) ==
    [o \in {ModelObj, ref} |-> IF o = ref THEN h[src] ELSE h[o]]

\* if val_loss < best_val_loss: best_val_loss, best_model, best_model_epoch
UpdateBest ==
    /\ pc = "update_best"
    /\ IF Improves(Val(val_loss), Val(best_val_loss))
       THEN /\ best_val_loss' = val_loss
            /\ best_model' = Some(DeepCopy(heap, ModelObj))
            /\ heap' = Rebind(heap, DeepCopy(heap, ModelObj), ModelObj)
            /\ best_model_epoch' = Some(epoch)
       ELSE UNCHANGED << best_val_loss, best_model, heap, best_model_epoch >>
    /\ pc' = "scheduler_step"
    /\ UNCHANGED << inputVars, steps, modelSrcVars, epoch, train_data_pt,
                    train_loader, valid_loader, val_loss, sched_steps, seen,
                    first_min_epoch, outVars, error >>

\* scheduler.step()
SchedulerStep ==
    /\ pc = "scheduler_step"
    /\ sched_steps' = sched_steps + 1
    /\ pc' = "for_epoch"
    /\ UNCHANGED << inputVars, steps, modelSrcVars, heap, epoch, train_data_pt,
                    train_loader, valid_loader, val_loss, best_val_loss,
                    best_model, best_model_epoch, seen, first_min_epoch,
                    outVars, error >>

\* ---------------------------------------------------------- after the loop
\* print(f"Best model: Epoch {best_model_epoch}, Val loss {best_val_loss}")
Report ==
    /\ pc = "report"
    /\ IF best_model_epoch = None
       THEN Raise("NameError")
       ELSE pc' = "save_best" /\ UNCHANGED error
    /\ UNCHANGED << inputVars, steps, modelSrcVars, loopVars, outVars >>

\* Mutant: the last model is saved, torch.save(model.state_dict(), ...).
SavedLastModel == Some(ModelObj)

\* The object whose state_dict() is saved: best_model.
SavedModel == best_model

\* best_model_dir = TemporaryDirectory(); copy vocab and config into it;
\* torch.save(best_model.state_dict(), best_model_dir/best_model.pt)
SaveBest ==
    /\ pc = "save_best"
    /\ best_model_dir' = Some(BestTmp)
    /\ IF SavedModel = None
       THEN /\ best_dir_files' = {"vocab.json", "args.json"}
            /\ Raise("AttributeError")
            /\ UNCHANGED << saved_state, steps >>
       ELSE /\ best_dir_files' = {"vocab.json", "args.json", "best_model.pt"}
            /\ saved_state' = Some(heap[Val(SavedModel)])
            /\ pc' = "embed"
            /\ Stage("save_best")
            /\ UNCHANGED error
    /\ fs' = fs \cup {BestTmp}
    /\ UNCHANGED << inputVars, model_temp, model_dir, cleanups, loopVars,
                    embedded, output_writes >>

\* embedded = scgpt.tasks.embed_data(adata, best_model_dir.name, ...): loads
\* the vocabulary, the config and best_model.pt from that directory.
EmbedData ==
    /\ pc = "embed"
    /\ IF CheckpointFiles \subseteq best_dir_files
       THEN /\ embedded' = saved_state
            /\ pc' = "write_output"
            /\ Stage("embed")
            /\ UNCHANGED error
       ELSE /\ Raise("FileNotFoundError")
            /\ UNCHANGED << embedded, steps >>
    /\ UNCHANGED << inputVars, modelSrcVars, loopVars, best_model_dir,
                    best_dir_files, saved_state, output_writes >>

\* output = ad.AnnData(obsm={"X_emb": embedded.X}, ...);
\* output.write_h5ad(par["output"], compression="gzip")
WriteOutput ==
    /\ pc = "write_output"
    /\ output_writes' = output_writes + 1
    /\ pc' = "cleanup"
    /\ Stage("write_output")
    /\ UNCHANGED << inputVars, modelSrcVars, loopVars, best_model_dir,
                    best_dir_files, saved_state, embedded, error >>

\* Mutant: the model directory is removed whoever made it.
CleanupTargetsModelDir == << Val(model_dir), Val(best_model_dir) >>

\* The directories cleanup() is called on, in order.
CleanupTargets ==
    (IF model_temp # None THEN << Val(model_temp) >> ELSE << >>)
        \o << Val(best_model_dir) >>

\* if model_temp is not None: model_temp.cleanup(); best_model_dir.cleanup()
Cleanup ==
    /\ pc = "cleanup"
    /\ cleanups' = cleanups \o CleanupTargets
    /\ fs' = fs \ {CleanupTargets[i] : i \in 1..Len(CleanupTargets)}
    /\ pc' = "done"
    /\ Stage("cleanup")
    /\ UNCHANGED << inputVars, model_temp, model_dir, loopVars, outVars, error >>

\* ------------------------------------------------------------------- Next
Next ==
    \/ ReadInput
    \/ CheckOrganism
    \/ Annotate
    \/ DownloadModel
    \/ UseModelDirectory
    \/ ExtractArchive
    \/ LoadConfig
    \/ Preprocess
    \/ SplitTokenize
    \/ LoadModel
    \/ SetupTraining
    \/ ForEpoch
    \/ PrepareData
    \/ TrainLoader
    \/ ValidLoader
    \/ Train
    \/ Evaluate
    \/ UpdateBest
    \/ SchedulerStep
    \/ Report
    \/ SaveBest
    \/ EmbedData
    \/ WriteOutput
    \/ Cleanup

Spec == Init /\ [][Next]_vars

\* ============================================================ properties
Range(s) == { s[i] : i \in 1..Len(s) }
IsPrefix(s, t) == Len(s) <= Len(t) /\ \A i \in 1..Len(s) : s[i] = t[i]
Count(s, x) == Cardinality({ i \in 1..Len(s) : s[i] = x })

\* The parameters of `model` after n calls of train.
RECURSIVE TrainedTimes(_)
TrainedTimes(n) == IF n = 0 THEN 0 ELSE TrainEffect(TrainedTimes(n - 1))

\* The least element of a non-empty set of non-NaN losses.
Least(S) == CHOOSE m \in S : \A x \in S : ~Lt(x, m)

\* Some epoch so far returned a loss strictly below +infinity.
SomeFiniteLoss == \E v \in seen : Lt(v, Inf)

Terminal == {"done", "error", "exit_non_applicable"}
BeforeResolve == {"read_input", "check_organism", "annotate", "resolve_model"}
EpochBody == << "prepare_data", "train_loader", "valid_loader", "train",
                "evaluate", "update_best", "scheduler_step", "for_epoch" >>
InEpoch == Range(EpochBody) \ {"for_epoch"}
LoopEnded == "epoch_loop" \in Range(steps)

\* The parameters held by the object best_model refers to.
BestParams == IF best_model = None THEN None ELSE Some(heap[Val(best_model)])

\* ------------------------------------------------------------------- C1
\* C1 as stated: once the loop has ended, best_val_loss is the minimum of the
\* losses evaluate returned, and best_model / best_model_epoch are the
\* snapshot and the index of the earliest epoch that returned it, for any
\* sequence of losses.
C1_AnyLossSequence ==
    pc = "report" =>
        /\ best_val_loss = Some(IF seen \ {NaN} = {} THEN NaN ELSE Least(seen \ {NaN}))
        /\ best_model_epoch # None
        /\ best_model_epoch = first_min_epoch
        /\ best_model # None
        /\ BestParams = Some(TrainedTimes(Val(best_model_epoch)))

\* What holds between two epochs' comparisons (everywhere but between
\* evaluate and the comparison that follows it).
C1_Selected ==
    (best_val_loss # None /\ pc # "update_best") =>
        /\ best_val_loss = Some(Least((seen \ {NaN}) \cup {Inf}))
        /\ IF SomeFiniteLoss
           THEN /\ best_model_epoch # None
                /\ best_model_epoch = first_min_epoch
                /\ best_model # None
                /\ BestParams = Some(TrainedTimes(Val(best_model_epoch)))
           ELSE best_model = None /\ best_model_epoch = None

C1_NeverIncreases ==
    (best_val_loss # None /\ best_val_loss' # None) =>
        ~Lt(Val(best_val_loss), Val(best_val_loss'))

\* C1 (amended): after every epoch and after the loop, best_val_loss is the
\* minimum of +infinity and the non-NaN losses returned so far, and it never
\* increases; if some loss was strictly below +infinity, best_model and
\* best_model_epoch are the snapshot and the index of the earliest epoch that
\* returned that minimum; otherwise best_model is None and best_model_epoch
\* is unassigned.
C1_BestCheckpoint == [](C1_Selected) /\ [][C1_NeverIncreases]_vars

\* A run whose best epoch is 2, after a worse epoch 1 and with the last epoch
\* tying the best.
C1_Witness ==
    /\ pc = "report"
    /\ best_model_epoch = Some(2)
    /\ val_loss = best_val_loss
    /\ Cardinality(seen \ {NaN, Inf}) >= 2

\* ------------------------------------------------------------------- C2
C2_Frame ==
    /\ (best_model # None /\ best_model' = best_model) => BestParams' = BestParams
    /\ pc = "train" => BestParams' = BestParams
    /\ (best_model' # best_model \/ BestParams' # BestParams) =>
          /\ pc = "update_best"
          /\ Lt(Val(val_loss), Val(best_val_loss))

\* C2: the snapshot best_model refers to is not changed by any later call of
\* train on model, and best_model (the name and the parameters behind it)
\* changes only at the comparison of an epoch whose validation loss is
\* strictly below best_val_loss.
C2_SnapshotImmutable == [][C2_Frame]_vars

\* train has run since the snapshot was taken: model and snapshot differ.
C2_Witness ==
    /\ pc = "evaluate"
    /\ best_model # None
    /\ heap[ModelObj] # heap[Val(best_model)]
    /\ epoch > Val(best_model_epoch) + 1

\* ------------------------------------------------------------------- C3
\* C3: with a non-human organism the script leaves by the non-applicable
\* exit right after the organism check, having trained no epoch, computed no
\* embedding and written no output; with homo_sapiens that exit is not taken.
C3_NonHumanSkipped ==
    /\ (NotHuman(organism) /\ pc \notin {"read_input", "check_organism"}) =>
          /\ pc = "exit_non_applicable"
          /\ ~ENABLED Next
          /\ model_dir = None
          /\ DOMAIN heap = {}
          /\ epoch = 0
          /\ seen = {}
          /\ embedded = None
          /\ output_writes = 0
    /\ organism = "homo_sapiens" => pc # "exit_non_applicable"

C3_Witness == pc = "exit_non_applicable" /\ organism = "mus_musculus"

\* ------------------------------------------------------------------- C4
\* par["model"] is given and is no directory, no zip file and no tar file
\* named *.tar.gz.
Unsupported(pm) ==
    /\ pm # None
    /\ ~Val(pm).isdir
    /\ ~Val(pm).is_zipfile
    /\ ~(Val(pm).is_tarfile /\ Val(pm).targz_suffix)

ClaimedOrder == << "resolve_model", "load_input", "human_filter", "restrict_genes",
                   "preprocess", "split_tokenize", "load_model", "epoch_loop",
                   "save_best", "embed", "write_output" >>

\* The order of the script.
ScriptOrder == << "load_input", "human_filter", "annotate", "resolve_model",
                  "restrict_genes", "preprocess", "split_tokenize", "load_model",
                  "epoch_loop", "save_best", "embed", "write_output", "cleanup" >>

InClaimedOrder(name) == name \in Range(ClaimedOrder)

\* C5 as stated: the stages complete in the claimed order, model resolution
\* first and the input load and human-only filter after it.
C5_ClaimedOrder == IsPrefix(SelectSeq(steps, InClaimedOrder), ClaimedOrder)

\* C5 (amended): the input is loaded and the human-only filter applied
\* first, then the model artifacts are resolved, then genes are restricted to
\* the vocabulary, then preprocessing, split/tokenize, model load, epoch loop,
\* checkpoint persist, embedding and finally the output write; each stage's
\* effect is there only once the stage before it has completed.
C5_ScriptOrder ==
    /\ IsPrefix(steps, ScriptOrder)
    /\ (model_dir # None \/ model_temp # None) => "annotate" \in Range(steps)
    /\ DOMAIN heap # {} => "split_tokenize" \in Range(steps)
    /\ epoch > 0 => "load_model" \in Range(steps)
    /\ saved_state # None => LoopEnded
    /\ embedded # None => "save_best" \in Range(steps)
    /\ output_writes > 0 => "embed" \in Range(steps)

C5_Witness == pc = "done" /\ steps = ScriptOrder

\* ------------------------------------------------------------------- C6
\* C6 as stated (early stopping): no further epoch is trained once an epoch
\* failed to improve on the best validation loss.
C6_EarlyStopping ==
    (pc = "train" /\ epoch > 1) => best_model_epoch = Some(epoch - 1)

C6_LoopStep ==
    pc = "for_epoch" =>
        IF epoch < Epochs
        THEN pc' = "prepare_data" /\ epoch' = epoch + 1
        ELSE pc' = "report"

C6_AllEpochs == LoopEnded => epoch = Epochs /\ heap[ModelObj] = TrainedTimes(Epochs)

\* C6 (amended): the loop has no early stopping.  The validation losses
\* decide only which snapshot is retained: after every epoch, improved or
\* not, the next epoch is trained until the configured number of epochs has
\* run, and the loop ends only then.
C6_NoEarlyStopping == [](C6_AllEpochs) /\ [][C6_LoopStep]_vars

\* An epoch is being trained although the one before it did not improve.
C6_Witness ==
    /\ pc = "train"
    /\ epoch > 1
    /\ best_model # None
    /\ best_model_epoch # Some(epoch - 1)

\* ------------------------------------------------------------------- C7
\* C7: best_model.pt holds the parameters of best_model, the snapshot of the
\* earliest epoch with the lowest validation loss; the embedding is computed
\* from that checkpoint and only with the vocabulary, config and checkpoint
\* files in the directory; the output is written once, after the embedding;
\* the temporary directories are cleaned up only after the output is written.
C7_BestPersisted ==
    /\ saved_state # None =>
          /\ LoopEnded
          /\ saved_state = BestParams
          /\ saved_state = Some(TrainedTimes(Val(first_min_epoch)))
          /\ "best_model.pt" \in best_dir_files
    /\ embedded # None =>
          /\ CheckpointFiles \subseteq best_dir_files
          /\ embedded = saved_state
          /\ embedded = BestParams
    /\ pc \in {"embed", "write_output", "cleanup"} => Val(best_model_dir) \in fs
    /\ output_writes <= 1
    /\ output_writes = 1 => embedded # None
    /\ cleanups # << >> => output_writes = 1
    /\ pc = "done" => output_writes = 1 /\ cleanups # << >>

\* A finished run whose best epoch is not the last one.
C7_Witness ==
    /\ pc = "done"
    /\ output_writes = 1
    /\ embedded # Some(heap[ModelObj])
    /\ Val(best_model_epoch) < Epochs

\* ------------------------------------------------------------------- C8
\* The temporary directories the script has made.
MadeTemp ==
    (IF model_temp = None THEN {} ELSE {Val(model_temp)})
        \cup (IF best_model_dir = None THEN {} ELSE {Val(best_model_dir)})

\* C8: after model resolution, par["model"] None or an archive gives a
\* temporary directory that model_dir lies in; a directory gives model_dir
\* that path and no temporary directory, and the user's directory is never
\* removed; at the end each temporary directory made was cleaned up once.
C8_ModelSource ==
    /\ (pc \notin BeforeResolve \cup {"exit_non_applicable"}) =>
          /\ par_model = None =>
                model_temp = Some(ModelTmp) /\ model_dir = Some(ModelTmp)
          /\ (par_model # None /\ Val(par_model).isdir) =>
                model_temp = None /\ model_dir = Some(UserDir) /\ ModelTmp \notin fs
          /\ (par_model # None /\ ~Val(par_model).isdir) =>
                /\ model_temp = Some(ModelTmp)
                /\ pc # "error" =>
                      model_dir = Some(IF Val(par_model).is_zipfile THEN ModelTmp
                                       ELSE ModelTmpSub)
          /\ pc \notin Terminal => (model_temp # None => Val(model_temp) \in fs)
    /\ (par_model # None /\ Val(par_model).isdir) => UserDir \in fs
    /\ Range(cleanups) \subseteq MadeTemp
    /\ pc = "done" =>
          /\ \A d \in MadeTemp : Count(cleanups, d) = 1 /\ d \notin fs
          /\ BestTmp \in MadeTemp

\* A finished run on a user's model directory, which is still there.
C8_Witness ==
    /\ pc = "done"
    /\ par_model # None
    /\ Val(par_model).isdir
    /\ UserDir \in fs
    /\ cleanups = << BestTmp >>

\* ------------------------------------------------------------------- C9
Pos(name) == CHOOSE i \in 1..Len(EpochBody) : EpochBody[i] = name

\* Strictly decreasing along the loop, so the loop cannot run forever.
LoopMeasure == (Epochs - epoch) * Len(EpochBody) + (Len(EpochBody) - Pos(pc))

C9_State ==
    /\ epoch \in 0..Epochs
    /\ pc \in InEpoch =>
          /\ epoch >= 1
          /\ sched_steps = epoch - 1
          /\ Cardinality(seen) <= epoch
          /\ Pos(pc) > Pos("prepare_data") => train_data_pt = Some(epoch)
          /\ Pos(pc) > Pos("train_loader") => train_loader = Some(epoch)
          /\ Pos(pc) > Pos("valid_loader") => valid_loader = Some(epoch)
          /\ heap[ModelObj] =
                TrainedTimes(IF Pos(pc) > Pos("train") THEN epoch ELSE epoch - 1)
          /\ ENABLED Next
    /\ pc = "for_epoch" => sched_steps = epoch /\ ENABLED Next
    /\ LoopEnded =>
          /\ epoch = Epochs
          /\ sched_steps = Epochs
          /\ heap[ModelObj] = TrainedTimes(Epochs)

C9_Step ==
    /\ epoch' # epoch => pc = "for_epoch" /\ epoch' = epoch + 1
    /\ pc \in InEpoch => pc' = EpochBody[Pos(pc) + 1]
    /\ (pc \in Range(EpochBody) /\ pc' \in Range(EpochBody)) =>
          LoopMeasure' < LoopMeasure
    /\ sched_steps' # sched_steps =>
          pc = "scheduler_step" /\ sched_steps' = sched_steps + 1
    /\ pc = "update_best" => pc' = "scheduler_step"

\* C9: the loop runs epochs 1..15 in increasing order, once each, whatever
\* the losses, and then ends; an epoch is prepare_data, train loader,
\* validation loader, train, evaluate, comparison, scheduler.step() in that
\* order, so the scheduler is stepped once per epoch, after the comparison,
\* 15 times in all.
C9_EpochLoop == [](C9_State) /\ [][C9_Step]_vars

C9_Witness ==
    /\ pc = "report"
    /\ sched_steps = Epochs
    /\ epoch = Epochs
    /\ Cardinality(seen) >= 3

\* ------------------------------------------------------------------ C10
\* C10: when the loop has ended, best_model is set and best_model_epoch is
\* assigned exactly if some epoch returned a loss strictly below +infinity;
\* if none did, the script fails with NameError at the report that follows
\* the loop, before anything is saved, and no output is written.
C10_BestExists ==
    LoopEnded =>
        /\ (best_model # None) <=> SomeFiniteLoss
        /\ (best_model_epoch # None) <=> SomeFiniteLoss
        /\ (~SomeFiniteLoss /\ pc # "report") =>
              /\ pc = "error"
              /\ error = Some("NameError")
              /\ best_model_dir = None
              /\ saved_state = None
              /\ embedded = None
              /\ output_writes = 0
        /\ SomeFiniteLoss => error = None

\* Every epoch returned +infinity or NaN, and the script failed.
C10_Witness ==
    /\ pc = "error"
    /\ error = Some("NameError")
    /\ seen = {Inf, NaN}
    /\ epoch = Epochs

====
